---------------------------- MODULE Spec2Model ----------------------------
(***************************************************************************)
(* XhAfAn1/TTS-Modules: the XTTS v2 FastAPI server                         *)
(* (src/XTTS v2/Backend Server/server.py) and the ElevenLabs one-shot      *)
(* script (src/ElevenLabs/generate_speech.py).                             *)
(*                                                                         *)
(* Conventions.                                                            *)
(*  - Floats are kept as integers in hundredths: 0.85 is 85, 1.0 is 100,   *)
(*    5.0 is 500.  top_k is an int in the source and is kept as is.        *)
(*  - A JSON body is a function from the field names it carries to their   *)
(*    values; the pydantic models TTSRequest and EmotionPreset fill in the *)
(*    defaults of the fields the body leaves out.                          *)
(*  - Both handlers are "async def" coroutines without a single await, and *)
(*    tts.tts_to_file is a synchronous call: a handler that has started    *)
(*    keeps the event loop until it returns or raises.  A handler is       *)
(*    therefore one step up to tts.tts_to_file and one step from the       *)
(*    return (or raise) of tts.tts_to_file to the response; in between the *)
(*    call is in flight and other requests can only arrive.                *)
(***************************************************************************)
EXTENDS Integers, Sequences, FiniteSets, TLC

VARIABLES
    files,      \* server: the speaker reference files that exist on disk
    requests,   \* server: the requests received, in arrival order
    output,     \* server: the artifacts written under output/
    log,        \* server: the [ERROR] lines printed
    pc,         \* script: the statement the script is at
    env,        \* script: the environment the script runs in
    client,     \* script: the ElevenLabs client, once constructed
    audio,      \* script: what convert() returned
    trace       \* script: the calls made so far, in order

serverVars == <<files, requests, output, log>>
scriptVars == <<pc, env, client, audio, trace>>
vars == <<files, requests, output, log, pc, env, client, audio, trace>>

---------------------------------------------------------------------------
(* Bounds of the model *)

\* requests the server receives in one behaviour of Spec
MaxRequests == 3

\* a capacity an output store could be configured with (server.py has none)
StoreCapacity == 2

---------------------------------------------------------------------------
(* server.py: constants *)

\* Python's None
None == "<None>"

DEFAULT_SPEAKER_WAV == "test.wav"

EMOTION_SETTINGS ==
    [ happy   |-> [temperature |-> 85, speed |-> 110, top_p |-> 90,
                   prefix |-> "**excited** "],
      sad     |-> [temperature |-> 65, speed |-> 90,  top_p |-> 75,
                   prefix |-> "**sadly** "],
      angry   |-> [temperature |-> 95, speed |-> 115, top_p |-> 95,
                   prefix |-> "**angrily** "],
      excited |-> [temperature |-> 95, speed |-> 120, top_p |-> 95,
                   prefix |-> "**very excited** "],
      calm    |-> [temperature |-> 60, speed |-> 95,  top_p |-> 70,
                   prefix |-> "**calmly** "],
      whisper |-> [temperature |-> 50, speed |-> 85,  top_p |-> 60,
                   prefix |-> "**whispers** "] ]

\* the ranges root() and the docstring of speak() document, in hundredths
VoiceControls ==
    [ speed       |-> [lo |-> 50, hi |-> 200],
      temperature |-> [lo |-> 10, hi |-> 100],
      top_p       |-> [lo |-> 10, hi |-> 100] ]

---------------------------------------------------------------------------
(* server.py: request models *)

Field(body, name, default) ==
    IF name \in DOMAIN body THEN body[name] ELSE default

TTSRequest(body) ==
    [ text               |-> body.text,
      speaker_wav        |-> Field(body, "speaker_wav", None),
      language           |-> Field(body, "language", "en"),
      speed              |-> Field(body, "speed", 100),
      temperature        |-> Field(body, "temperature", 75),
      length_penalty     |-> Field(body, "length_penalty", 100),
      repetition_penalty |-> Field(body, "repetition_penalty", 500),
      top_k              |-> Field(body, "top_k", 50),
      top_p              |-> Field(body, "top_p", 85) ]

EmotionPreset(body) ==
    [ text        |-> body.text,
      emotion     |-> body.emotion,
      speaker_wav |-> Field(body, "speaker_wav", None),
      language    |-> Field(body, "language", "en") ]

---------------------------------------------------------------------------
(* The inputs: JSON bodies that pass the pydantic model *)

NoFields == [f \in {} |-> None]

OneOf(name, values) == {NoFields} \cup { name :> v : v \in values }

Texts == {"Hello", ""}

SpeakerFields == OneOf("speaker_wav", {None, "", "voice.wav", "missing.wav"})

LanguageFields == OneOf("language", {"fr"})

SpeakBodies ==
    { ("text" :> "Hello") @@ s @@ sp @@ te @@ tp @@ rest :
        s    \in SpeakerFields,
        sp   \in OneOf("speed", {49, 50, 200, 300}),
        te   \in OneOf("temperature", {10, 110}),
        tp   \in OneOf("top_p", {5, 100}),
        rest \in { NoFields,
                   [language |-> "fr", length_penalty |-> 120,
                    repetition_penalty |-> 200, top_k |-> 10] } }

EmotionTags == DOMAIN EMOTION_SETTINGS \cup {"furious", ""}

EmotionBodies ==
    { ("text" :> t) @@ ("emotion" :> e) @@ s @@ l :
        t \in Texts, e \in EmotionTags,
        s \in SpeakerFields, l \in LanguageFields }

\* the bodies the concurrent specification draws from
FewSpeakBodies ==
    { [text |-> "Hello"],
      [text |-> "Hello", speaker_wav |-> "missing.wav"],
      [text |-> "Hello", speed |-> 300] }

FewEmotionBodies ==
    { [text |-> "Hello", emotion |-> "whisper"],
      [text |-> "Hello", emotion |-> "calm", speaker_wav |-> ""],
      [text |-> "Hello", emotion |-> "furious"],
      [text |-> "Hello", emotion |-> "furious", speaker_wav |-> "missing.wav"] }

\* what os.makedirs("output", exist_ok=True) does: returns, or raises OSError
MakedirsOutcomes == {"ok", "[Errno 13] Permission denied: 'output'"}

\* what tts.tts_to_file does: returns, or raises
BackendOutcomes == {"ok", "CUDA out of memory"}

---------------------------------------------------------------------------
(* server.py: the handlers *)

Truthy(s) == s \notin {None, ""}

SpeakerFile(req) ==
    IF Truthy(req.speaker_wav) THEN req.speaker_wav ELSE DEFAULT_SPEAKER_WAV

\* f"output/{uuid.uuid4().hex}.wav": the i-th request draws the i-th uuid
Filename(i) == "output/" \o ToString(i) \o ".wav"

Basename(i) == ToString(i) \o ".wav"

\* mutant: the existence check is dropped
ExistsAlways(path) == TRUE

\* os.path.exists(speaker_file)
Exists(path) == path \in files

\* mutant: the membership test is dropped
EmotionKnownAlways(emotion) == TRUE

EmotionKnown(emotion) == emotion \in DOMAIN EMOTION_SETTINGS

\* the keyword arguments of tts.tts_to_file in speak()
SpeakArgs(req, speaker_file, filename) ==
    [ text               |-> req.text,
      speaker_wav        |-> speaker_file,
      language           |-> req.language,
      file_path          |-> filename,
      speed              |-> req.speed,
      temperature        |-> req.temperature,
      length_penalty     |-> req.length_penalty,
      repetition_penalty |-> req.repetition_penalty,
      top_k              |-> req.top_k,
      top_p              |-> req.top_p ]

\* mutant: temperature and top_p are passed crosswise
EmotionArgsSwapped(req, speaker_file, filename) ==
    LET emotion_config == EMOTION_SETTINGS[req.emotion]
        modified_text  == emotion_config.prefix \o req.text
    IN  [ text        |-> modified_text,
          speaker_wav |-> speaker_file,
          language    |-> req.language,
          file_path   |-> filename,
          speed       |-> emotion_config.speed,
          temperature |-> emotion_config.top_p,
          top_p       |-> emotion_config.temperature ]

\* mutant: the defaults of TTSRequest are passed along with the preset
EmotionArgsWithDefaults(req, speaker_file, filename) ==
    LET emotion_config == EMOTION_SETTINGS[req.emotion]
        modified_text  == emotion_config.prefix \o req.text
    IN  [ text               |-> modified_text,
          speaker_wav        |-> speaker_file,
          language           |-> req.language,
          file_path          |-> filename,
          speed              |-> emotion_config.speed,
          temperature        |-> emotion_config.temperature,
          length_penalty     |-> 100,
          repetition_penalty |-> 500,
          top_k              |-> 50,
          top_p              |-> emotion_config.top_p ]

\* the keyword arguments of tts.tts_to_file in speak_with_emotion()
EmotionArgs(req, speaker_file, filename) ==
    LET emotion_config == EMOTION_SETTINGS[req.emotion]
        modified_text  == emotion_config.prefix \o req.text
    IN  [ text        |-> modified_text,
          speaker_wav |-> speaker_file,
          language    |-> req.language,
          file_path   |-> filename,
          speed       |-> emotion_config.speed,
          temperature |-> emotion_config.temperature,
          top_p       |-> emotion_config.top_p ]

HTTPException(status_code, detail) ==
    [status |-> status_code, detail |-> detail, path |-> "", filename |-> ""]

FileResponse(path, filename) ==
    [status |-> 200, detail |-> "", path |-> path, filename |-> filename]

\* mutant: the 500 carries a fixed message instead of str(e)
InternalErrorGeneric(e) == HTTPException(500, "Internal Server Error")

\* "except Exception as e": print the text and answer 500 with the same text
InternalError(e) == HTTPException(500, e)

ErrorLine(e) == "[ERROR] " \o e

SpeakerNotFound(speaker_file) ==
    HTTPException(400, "Speaker file not found: " \o speaker_file)

UnknownEmotion ==
    HTTPException(400, "Unknown emotion. Available: ['happy', 'sad', 'angry', 'excited', 'calm', 'whisper']")

\* mutant: the handlers run in a thread pool ("def" instead of "async def")
LoopFreeAlways == TRUE

\* the event loop runs one coroutine at a time, and a handler never awaits
LoopFree == \A j \in DOMAIN requests : requests[j].state # "running"

NewRequest(endpoint, req) ==
    [endpoint |-> endpoint, req |-> req, state |-> "queued",
     response |-> <<>>, call |-> <<>>]

Raise(i, resp) ==
    requests' = [requests EXCEPT ![i].state = "failed", ![i].response = <<resp>>]

Invoke(i, args) ==
    requests' = [requests EXCEPT ![i].state = "running", ![i].call = <<args>>]

\* a request reaches the server and waits for the event loop
Arrive(speakBodies, emotionBodies) ==
    /\ Len(requests) < MaxRequests
    /\ \/ \E b \in speakBodies :
            requests' = Append(requests, NewRequest("speak", TTSRequest(b)))
       \/ \E b \in emotionBodies :
            requests' = Append(requests, NewRequest("speak_emotion", EmotionPreset(b)))
    /\ UNCHANGED <<files, output, log>>
    /\ UNCHANGED scriptVars

\* speak(), from its entry to the call of tts.tts_to_file
Speak(i) ==
    /\ requests[i].endpoint = "speak"
    /\ requests[i].state = "queued"
    /\ LoopFree
    /\ \E mk \in MakedirsOutcomes :
         LET req          == requests[i].req
             speaker_file == SpeakerFile(req)
         IN  IF mk # "ok"
             THEN /\ Raise(i, InternalError(mk))
                  /\ log' = log \cup {ErrorLine(mk)}
             ELSE IF ~Exists(speaker_file)
             THEN /\ Raise(i, SpeakerNotFound(speaker_file))
                  /\ log' = log
             ELSE /\ Invoke(i, SpeakArgs(req, speaker_file, Filename(i)))
                  /\ log' = log
    /\ UNCHANGED <<files, output>>
    /\ UNCHANGED scriptVars

\* speak_with_emotion(), from its entry to the call of tts.tts_to_file
SpeakWithEmotion(i) ==
    /\ requests[i].endpoint = "speak_emotion"
    /\ requests[i].state = "queued"
    /\ LoopFree
    /\ \E mk \in MakedirsOutcomes :
         LET req          == requests[i].req
             speaker_file == SpeakerFile(req)
         IN  IF ~EmotionKnown(req.emotion)
             THEN /\ Raise(i, UnknownEmotion)
                  /\ log' = log
             ELSE IF mk # "ok"
             THEN /\ Raise(i, InternalError(mk))
                  /\ log' = log \cup {ErrorLine(mk)}
             ELSE IF ~Exists(speaker_file)
             THEN /\ Raise(i, SpeakerNotFound(speaker_file))
                  /\ log' = log
             ELSE IF req.emotion \notin DOMAIN EMOTION_SETTINGS
             THEN \* EMOTION_SETTINGS[req.emotion] raises KeyError
                  /\ Raise(i, InternalError("'" \o req.emotion \o "'"))
                  /\ log' = log \cup {ErrorLine("'" \o req.emotion \o "'")}
             ELSE /\ Invoke(i, EmotionArgs(req, speaker_file, Filename(i)))
                  /\ log' = log
    /\ UNCHANGED <<files, output>>
    /\ UNCHANGED scriptVars

\* mutant: a failed synthesis is put back in the queue and tried again
AfterBackendRetry(i, outcome) ==
    IF outcome = "ok"
    THEN /\ output' = output \cup {Filename(i)}
         /\ requests' = [requests EXCEPT
                ![i].state = "done",
                ![i].response = <<FileResponse(Filename(i), Basename(i))>>]
         /\ log' = log
    ELSE /\ output' = output
         /\ requests' = [requests EXCEPT ![i].state = "queued", ![i].call = <<>>]
         /\ log' = log \cup {ErrorLine(outcome)}

\* what the handler does once tts.tts_to_file has returned or raised
AfterBackend(i, outcome) ==
    IF outcome = "ok"
    THEN /\ output' = output \cup {Filename(i)}
         /\ requests' = [requests EXCEPT
                ![i].state = "done",
                ![i].response = <<FileResponse(Filename(i), Basename(i))>>]
         /\ log' = log
    ELSE /\ output' = output
         /\ Raise(i, InternalError(outcome))
         /\ log' = log \cup {ErrorLine(outcome)}

\* speak(), from the return of tts.tts_to_file to the response
SpeakReturn(i) ==
    /\ requests[i].endpoint = "speak"
    /\ requests[i].state = "running"
    /\ \E outcome \in BackendOutcomes : AfterBackend(i, outcome)
    /\ UNCHANGED files
    /\ UNCHANGED scriptVars

\* speak_with_emotion(), from the return of tts.tts_to_file to the response
SpeakWithEmotionReturn(i) ==
    /\ requests[i].endpoint = "speak_emotion"
    /\ requests[i].state = "running"
    /\ \E outcome \in BackendOutcomes : AfterBackend(i, outcome)
    /\ UNCHANGED files
    /\ UNCHANGED scriptVars

---------------------------------------------------------------------------
(* generate_speech.py *)

\* dotenv_values(".env").get("ELEVENLABS_API_KEY")
ApiKeys == {None, "sk_live", "sk_revoked"}

\* what ElevenLabs(api_key=...) does: returns a client, or raises
ClientOutcomes == {"ok", "client error"}

\* what os.makedirs(OUTPUT_FOLDER, exist_ok=True) does: returns, or raises
FolderOutcomes == {"ok", "[Errno 13] Permission denied: 'output_audio_files'"}

\* what client.text_to_speech.convert(...) does: returns audio, or raises
AudioValues == {"mp3 bytes", "empty stream", "partial stream"}

ConvertErrors == {"401 invalid_api_key", "connection failed"}

\* what save(audio, OUTPUT_PATH) does: returns, or raises
SaveOutcomes == {"ok", "[Errno 28] No space left on device"}

Called(name, result) == [call |-> name, result |-> result]

\* "except Exception as e: print(...); exit()" of the client initialization
ClientExcept(e) ==
    /\ pc' = "exit"
    /\ client' = client
    /\ trace' = Append(trace, Called("ElevenLabs", e))

\* lines 26-31: try: client = ElevenLabs(api_key=ELEVENLABS_API_KEY)
InitClient ==
    /\ pc = "init_client"
    /\ \E r \in ClientOutcomes :
         IF r = "ok"
         THEN /\ client' = env.api_key
              /\ pc' = "makedirs"
              /\ trace' = Append(trace, Called("ElevenLabs", "ok"))
         ELSE ClientExcept(r)
    /\ UNCHANGED <<env, audio>>
    /\ UNCHANGED serverVars

\* line 37: os.makedirs(OUTPUT_FOLDER, exist_ok=True), outside any try
EnsureDirectory ==
    /\ pc = "makedirs"
    /\ \E r \in FolderOutcomes :
         IF r = "ok"
         THEN /\ env' = [env EXCEPT !.folder = TRUE]
              /\ pc' = "convert"
              /\ trace' = Append(trace, Called("makedirs", "ok"))
         ELSE \* the OSError is not caught: the script dies with a traceback
              /\ env' = env
              /\ pc' = "exit"
              /\ trace' = Append(trace, Called("makedirs", r))
    /\ UNCHANGED <<client, audio>>
    /\ UNCHANGED serverVars

\* mutant: the except clause of the conversion does not exit
ConvertExceptNoExit(e) ==
    /\ pc' = "save"
    /\ audio' = audio
    /\ trace' = Append(trace, Called("convert", e))

\* "except Exception as e: print(...); exit()" of the conversion
ConvertExcept(e) ==
    /\ pc' = "exit"
    /\ audio' = audio
    /\ trace' = Append(trace, Called("convert", e))

\* lines 41-54: try: audio = client.text_to_speech.convert(...)
Convert ==
    /\ pc = "convert"
    /\ \/ \E a \in AudioValues :
            /\ audio' = a
            /\ pc' = "save"
            /\ trace' = Append(trace, Called("convert", "ok"))
       \/ \E e \in ConvertErrors : ConvertExcept(e)
    /\ UNCHANGED <<env, client>>
    /\ UNCHANGED serverVars

\* lines 59-64: try: save(audio, OUTPUT_PATH); the script ends either way
Save ==
    /\ pc = "save"
    /\ \E r \in SaveOutcomes :
         /\ env' = IF r = "ok" THEN [env EXCEPT !.file = audio] ELSE env
         /\ trace' = Append(trace, Called("save", r))
    /\ pc' = "exit"
    /\ UNCHANGED <<client, audio>>
    /\ UNCHANGED serverVars

---------------------------------------------------------------------------
(* Specifications *)

\* the script does not run in the server's specifications
ScriptIdle ==
    /\ pc = "idle"
    /\ env = [api_key |-> None, folder |-> FALSE, file |-> None]
    /\ client = None
    /\ audio = None
    /\ trace = <<>>

\* the speaker files on disk: the default speaker may be missing (the module
\* only warns), "missing.wav" never exists
FileSystems == { {"test.wav", "voice.wav"}, {"voice.wav"} }

Init ==
    /\ files \in FileSystems
    /\ requests = <<>>
    /\ output = {}
    /\ log = {}
    /\ ScriptIdle

Next ==
    \/ Arrive(FewSpeakBodies, FewEmotionBodies)
    \/ \E i \in DOMAIN requests : Speak(i)
    \/ \E i \in DOMAIN requests : SpeakWithEmotion(i)
    \/ \E i \in DOMAIN requests : SpeakReturn(i)
    \/ \E i \in DOMAIN requests : SpeakWithEmotionReturn(i)

\* the server under concurrently arriving requests
Spec == Init /\ [][Next]_vars

\* one request, drawn from all the bodies, handled from arrival to response
InitRequest ==
    /\ files \in FileSystems
    /\ requests \in
         { <<NewRequest("speak", TTSRequest(b))>> : b \in SpeakBodies }
         \cup { <<NewRequest("speak_emotion", EmotionPreset(b))>> : b \in EmotionBodies }
    /\ output = {}
    /\ log = {}
    /\ ScriptIdle

NextRequest ==
    \/ \E i \in DOMAIN requests : Speak(i)
    \/ \E i \in DOMAIN requests : SpeakWithEmotion(i)
    \/ \E i \in DOMAIN requests : SpeakReturn(i)
    \/ \E i \in DOMAIN requests : SpeakWithEmotionReturn(i)

SpecRequest == InitRequest /\ [][NextRequest]_vars

\* one run of the script: the .env file, the output folder and an earlier
\* output file are what the run finds
InitScript ==
    /\ pc = "init_client"
    /\ env \in [api_key : ApiKeys, folder : BOOLEAN, file : {None, "old bytes"}]
    /\ client = None
    /\ audio = None
    /\ trace = <<>>
    /\ files = {}
    /\ requests = <<>>
    /\ output = {}
    /\ log = {}

NextScript ==
    \/ InitClient
    \/ EnsureDirectory
    \/ Convert
    \/ Save

\* the script is a sequential program: a statement that can run does run
SpecScript == InitScript /\ [][NextScript]_vars /\ WF_vars(NextScript)

---------------------------------------------------------------------------
(* Properties *)

Invoked(i) == requests[i].call # <<>>

Answered(i) == requests[i].response # <<>>

IsEmotion(i) == requests[i].endpoint = "speak_emotion"

IsSpeak(i) == requests[i].endpoint = "speak"

\* the speaker reference of a request: its speaker_wav, or the default
\* speaker file when none is given
Resolved(i) ==
    IF requests[i].req.speaker_wav \in {None, ""}
    THEN "test.wav"
    ELSE requests[i].req.speaker_wav

UnknownTag(i) == IsEmotion(i) /\ requests[i].req.emotion \notin DOMAIN EMOTION_SETTINGS

\* C1: a /speak_emotion request whose emotion tag is not a key of
\* EMOTION_SETTINGS never invokes tts.tts_to_file, and once handled it has
\* failed with the 400 "Unknown emotion" response, whatever its text,
\* speaker_wav and language are.
C1_UnknownPresetRejected ==
    \A i \in DOMAIN requests :
        UnknownTag(i) =>
            /\ ~Invoked(i)
            /\ requests[i].state \in {"queued", "failed"}
            /\ requests[i].state = "failed" =>
                  /\ requests[i].response[1].status = 400
                  /\ requests[i].response = <<UnknownEmotion>>

\* a "furious" request with a speaker file that exists has been rejected
C1_Witness ==
    \E i \in DOMAIN requests :
        /\ IsEmotion(i)
        /\ requests[i].req.emotion = "furious"
        /\ Resolved(i) \in files
        /\ requests[i].state = "failed"

\* C2: a /speak_emotion request that reaches the backend invokes it with the
\* speed, temperature and top_p of its preset and with the preset's prefix
\* followed by the request's text; "whisper" with "Hello" gives temperature
\* 0.5, speed 0.85, top_p 0.6 and "**whispers** Hello".
C2_PresetApplied ==
    \A i \in DOMAIN requests :
        (IsEmotion(i) /\ Invoked(i)) =>
            LET a == requests[i].call[1]
                r == requests[i].req
                p == EMOTION_SETTINGS[r.emotion]
            IN  /\ a.speed = p.speed
                /\ a.temperature = p.temperature
                /\ a.top_p = p.top_p
                /\ a.text = p.prefix \o r.text
                /\ (r.emotion = "whisper" /\ r.text = "Hello") =>
                      /\ a.temperature = 50
                      /\ a.speed = 85
                      /\ a.top_p = 60
                      /\ a.text = "**whispers** Hello"

\* the backend has been invoked for "whisper" with "Hello"
C2_Witness ==
    \E i \in DOMAIN requests :
        /\ IsEmotion(i)
        /\ requests[i].req.emotion = "whisper"
        /\ requests[i].req.text = "Hello"
        /\ Invoked(i)
        /\ requests[i].state = "running"

InBackend == { i \in DOMAIN requests : requests[i].state = "running" }

\* C3: at most one request is inside tts.tts_to_file at any time, however
\* the /speak and /speak_emotion requests arrive.
C3_OneInFlight == Cardinality(InBackend) <= 1

\* one request is inside the backend call while two others wait
C3_Witness ==
    /\ Cardinality(InBackend) = 1
    /\ Cardinality({ i \in DOMAIN requests : requests[i].state = "queued" }) >= 2

InRange(name, v) == VoiceControls[name].lo <= v /\ v <= VoiceControls[name].hi

\* C4: the speed, temperature and top_p with which /speak invokes the
\* backend lie within their documented ranges.
C4_ControlsInRange ==
    \A i \in DOMAIN requests :
        (IsSpeak(i) /\ Invoked(i)) =>
            \A name \in DOMAIN VoiceControls :
                InRange(name, requests[i].call[1][name])

MissingSpeaker(i) == Resolved(i) \notin files

\* C6, as claimed: a request whose resolved speaker reference does not
\* exist never invokes the backend and fails with the 400 that names the
\* missing file.  (A request that os.makedirs failed on is left aside: the
\* claim is refuted without it.)
C6_MissingSpeakerRejected ==
    \A i \in DOMAIN requests :
        MissingSpeaker(i) =>
            /\ ~Invoked(i)
            /\ requests[i].state \in {"queued", "failed"}
            /\ (requests[i].state = "failed" /\ requests[i].response[1].status # 500) =>
                  requests[i].response = <<SpeakerNotFound(Resolved(i))>>

\* C6, amended: such a request never invokes the backend; it fails with
\* the 400 that names the missing file unless its emotion tag is unknown
\* (then with the 400 of the unknown emotion, which is checked first) or
\* os.makedirs raised (then with the 500 of that exception, the directory
\* being created before the speaker file is looked up).
C6_MissingSpeakerNeverInvoked ==
    \A i \in DOMAIN requests :
        MissingSpeaker(i) =>
            /\ ~Invoked(i)
            /\ requests[i].state \in {"queued", "failed"}
            /\ requests[i].state = "failed" =>
                  IF UnknownTag(i)
                  THEN requests[i].response = <<UnknownEmotion>>
                  ELSE \/ requests[i].response = <<SpeakerNotFound(Resolved(i))>>
                       \/ /\ requests[i].response[1].status = 500
                          /\ requests[i].response[1].detail \in MakedirsOutcomes

\* a request with a missing speaker file has been answered with the 400
\* that names the file
C6_Witness ==
    \E i \in DOMAIN requests :
        /\ MissingSpeaker(i)
        /\ requests[i].state = "failed"
        /\ requests[i].response = <<SpeakerNotFound(Resolved(i))>>

\* C7: the number of artifacts under output/ never exceeds the capacity.
C7_StoreBounded == Cardinality(output) <= StoreCapacity

\* C8: a request starts Queued; its state changes only Queued -> Running,
\* Running -> Done, Running -> Failed, or Queued -> Failed (rejected before
\* the backend call); Queued -> Running happens only while no other request
\* is Running; Done and Failed are final; there is no other state.
C8_Lifecycle ==
    [][ \A i \in DOMAIN requests' :
          IF i \notin DOMAIN requests
          THEN requests'[i].state = "queued"
          ELSE LET s == requests[i].state
                   t == requests'[i].state
               IN  /\ t \in {"queued", "running", "done", "failed"}
                   /\ s # t => <<s, t>> \in { <<"queued", "running">>,
                                              <<"queued", "failed">>,
                                              <<"running", "done">>,
                                              <<"running", "failed">> }
                   /\ (s = "queued" /\ t = "running") =>
                         \A j \in DOMAIN requests : requests[j].state # "running"
                   /\ s \in {"done", "failed"} => requests'[i] = requests[i]
      ]_vars

\* one request is Done, one has Failed after its backend call, one is Running
C8_Witness ==
    \E i, j, k \in DOMAIN requests :
        /\ requests[i].state = "done"
        /\ requests[j].state = "failed" /\ Invoked(j)
        /\ requests[k].state = "running"

PresetKeywords ==
    {"text", "speaker_wav", "language", "file_path", "speed", "temperature", "top_p"}

\* C9, as claimed: /speak_emotion invokes the backend with length_penalty
\* 1.0, repetition_penalty 5.0 and top_k 50, as /speak does by default.
C9_DefaultsPassed ==
    \A i \in DOMAIN requests :
        (IsEmotion(i) /\ Invoked(i)) =>
            LET a == requests[i].call[1]
            IN  /\ {"length_penalty", "repetition_penalty", "top_k"} \subseteq DOMAIN a
                /\ a.length_penalty = 100
                /\ a.repetition_penalty = 500
                /\ a.top_k = 50

\* C9, amended: /speak_emotion invokes the backend with text, speaker_wav,
\* language, file_path, speed, temperature and top_p only (length_penalty,
\* repetition_penalty and top_k are left to the backend), while /speak with
\* unspecified parameters passes 1.0, 5.0 and 50 for them and 1.0, 0.75 and
\* 0.85 for speed, temperature and top_p.
C9_PresetKeywordsOnly ==
    \A i \in DOMAIN requests :
        Invoked(i) =>
            LET a == requests[i].call[1]
            IN  /\ IsEmotion(i) => DOMAIN a = PresetKeywords
                /\ (IsSpeak(i) /\ requests[i].req = TTSRequest([text |-> "Hello"])) =>
                      /\ a.length_penalty = 100
                      /\ a.repetition_penalty = 500
                      /\ a.top_k = 50
                      /\ a.speed = 100
                      /\ a.temperature = 75
                      /\ a.top_p = 85

\* the backend has been invoked for a preset
C9_Witness ==
    \E i \in DOMAIN requests :
        /\ IsEmotion(i)
        /\ Invoked(i)
        /\ requests[i].req.emotion = "happy"
        /\ requests[i].state = "done"

Calls(name) == { k \in DOMAIN trace : trace[k].call = name }

Succeeded(name) == \E k \in DOMAIN trace : trace[k] = Called(name, "ok")

Raised(name) == \E k \in DOMAIN trace : trace[k].call = name /\ trace[k].result # "ok"

ScriptSafe ==
    /\ Cardinality(Calls("convert")) <= 1
    /\ Cardinality(Calls("save")) <= 1
    /\ \A k \in Calls("save") :
          /\ \E j \in 1..(k - 1) : trace[j] = Called("ElevenLabs", "ok")
          /\ \E j \in 1..(k - 1) : trace[j] = Called("convert", "ok")
    /\ (Raised("ElevenLabs") \/ Raised("convert")) => Calls("save") = {}

\* C10: every run of the script ends; it converts at most once and saves at
\* most once, saves only after the client initialization and the conversion
\* both succeeded, and ends without a save when either of them raised.
C10_OneShot == [](ScriptSafe) /\ <>(pc = "exit")

\* a run has ended after its one save
C10_Witness ==
    /\ pc = "exit"
    /\ Cardinality(Calls("save")) = 1
    /\ Succeeded("convert")

=============================================================================
